---- MODULE Spec2Model ----
(***************************************************************************)
(* The banscii assistant protection domain (crates/assistant/src/main.rs). *)
(* It reads bytes from the serial driver, assembles a subject line, sends  *)
(* it to the artist ("talent") through the out region and a protected      *)
(* procedure call, and prints the masterpiece and its signature.           *)
(***************************************************************************)
EXTENDS Integers, Sequences, FiniteSets

\* ------------------------------------------------------------ constants

UART_DRIVER == 0
TALENT == 1
REGION_SIZE == 16384
MAX_SUBJECT_LEN == 16

\* ------------------------------------------------------------ bounds

\* Bytes the serial driver holds that the assistant has not read yet.
MaxQueue == 2
\* Longest signature the artist returns in the model.
MaxSigLen == 65
\* A channel identifier that is neither the driver's nor the artist's.
OtherChannel == 2

\* ------------------------------------------------------------ inputs

\* '\n', '\r', '~' (the last printable byte), DEL, 0x80.
InputBytes == {10, 13, 126, 127, 128}

Channels == {UART_DRIVER, TALENT, OtherChannel}

NoByte == -1

\* No notification has been delivered yet.
NoChannel == -1

\* ------------------------------------------------------------ bytes

IsTerminator(b) == b = 10 \/ b = 13

\* A check that lets the bytes from 0x80 on through.
IsAsciiAny(b) == b <= 255

\* char::from(b).is_ascii()
IsAscii(b) == b <= 127

\* DEL is not taken for a control character.
IsAsciiControlNoDel(b) == b <= 31

\* char::is_ascii_control: 0x00..=0x1F and 0x7F
IsAsciiControl(b) == b <= 31 \/ b = 127

IsPrintable(b) == IsAscii(b) /\ ~IsAsciiControl(b)

IsCont(b) == b >= 128 /\ b <= 191

\* str::from_utf8: the validation of core::str, by lead byte.
RECURSIVE Utf8From(_, _)
Utf8From(s, i) ==
    IF i > Len(s) THEN TRUE
    ELSE LET b == s[i]
             n == Len(s)
             c1 == IF i + 1 <= n THEN s[i + 1] ELSE NoByte
             c2 == IF i + 2 <= n THEN s[i + 2] ELSE NoByte
             c3 == IF i + 3 <= n THEN s[i + 3] ELSE NoByte
         IN  IF b <= 127 THEN Utf8From(s, i + 1)
             ELSE IF b >= 194 /\ b <= 223
                  THEN IsCont(c1) /\ Utf8From(s, i + 2)
             ELSE IF b = 224
                  THEN c1 >= 160 /\ c1 <= 191 /\ IsCont(c2) /\ Utf8From(s, i + 3)
             ELSE IF (b >= 225 /\ b <= 236) \/ b = 238 \/ b = 239
                  THEN IsCont(c1) /\ IsCont(c2) /\ Utf8From(s, i + 3)
             ELSE IF b = 237
                  THEN c1 >= 128 /\ c1 <= 159 /\ IsCont(c2) /\ Utf8From(s, i + 3)
             ELSE IF b = 240
                  THEN c1 >= 144 /\ c1 <= 191 /\ IsCont(c2) /\ IsCont(c3)
                       /\ Utf8From(s, i + 4)
             ELSE IF b >= 241 /\ b <= 243
                  THEN IsCont(c1) /\ IsCont(c2) /\ IsCont(c3) /\ Utf8From(s, i + 4)
             ELSE IF b = 244
                  THEN c1 >= 128 /\ c1 <= 143 /\ IsCont(c2) /\ IsCont(c3)
                       /\ Utf8From(s, i + 4)
             ELSE FALSE

Utf8Valid(s) == Utf8From(s, 1)

\* ------------------------------------------------------------ events

\* One operation of the assistant on the serial line, a region or the
\* artist's channel.  a, b and data depend on ev:
\*   "prompt" "nl" "limit" "utf8err" "sighdr"   text written with write!/writeln!
\*   "echo" "pix"   serial.write(a); b = 1 when the driver took the byte,
\*                  0 when it reported would-block (the result is dropped)
\*   "hex"          one line of hex digits (data, ASCII codes)
\*   "write_out"    region_out[a..b) := data
\*   "call"         TALENT.pp_call(Request{height = data[1], width = data[2],
\*                  draft_start = a, draft_size = b})
\*   "recv"         msg_info.recv::<Response>()
\*   "read_in"      data := region_in[a..b)
Ev(e, x, y, d) == [ev |-> e, a |-> x, b |-> y, data |-> d]

Text(e) == Ev(e, 0, 0, <<>>)

\* serial.write(b): TRUE when the driver took the byte, FALSE when it
\* reported would-block.
WriteResults == BOOLEAN

Putc(e, byte, ok) == Ev(e, byte, IF ok THEN 1 ELSE 0, <<>>)

\* ------------------------------------------------------------ regions

\* A region is kept as the bytes from offset 0 up to the highest offset
\* written so far; every byte beyond reads as 0.
RegionAt(region, off) == IF off + 1 <= Len(region) THEN region[off + 1] ELSE 0

\* A copy of the closed interval lo..=hi.
CopyToVecInclusive(region, lo, hi) ==
    [k \in 1..(hi - lo + 1) |-> RegionAt(region, lo + k - 1)]

\* region.index(lo..hi).copy_to_vec()
CopyToVec(region, lo, hi) == [k \in 1..(hi - lo) |-> RegionAt(region, lo + k - 1)]

Max(x, y) == IF x >= y THEN x ELSE y

\* region.index(lo..lo + Len(src)).copy_from_slice(src)
CopyFromSlice(region, lo, src) ==
    [k \in 1..Max(Len(region), lo + Len(src)) |->
        IF k - 1 >= lo /\ k - 1 < lo + Len(src) THEN src[k - lo]
        ELSE RegionAt(region, k - 1)]

\* An index that checks the order of the ends only.
InBoundsUnchecked(lo, hi) == lo <= hi

\* The bounds check of index(lo..hi) on a region of REGION_SIZE bytes.
InBounds(lo, hi) == lo <= hi /\ hi <= REGION_SIZE

\* ------------------------------------------------------------ the draft

\* Draft::new(subject) of banscii_assistant_core renders the subject into a
\* pixel buffer height * width bytes long.  The rendering is not part of
\* this component: a draft is one of a few pixel buffers, one of them
\* larger than the out region.
DraftSizes == {1, 2, REGION_SIZE + 1}

DraftPixels(size) == [k \in 1..size |-> 32 + 3 * (k % 2)]

Drafts ==
    {[height |-> 1, width |-> size, pixel_data |-> DraftPixels(size)] :
        size \in DraftSizes}

DraftNew(subject) == Drafts

NoDraft == [height |-> 0, width |-> 0, pixel_data |-> <<>>]

\* ------------------------------------------------------------ the artist

Rep(l, dec, h, w, ms, mz, ss, sz, seed) ==
    [label |-> l, decodes |-> dec, height |-> h, width |-> w,
     masterpiece_start |-> ms, masterpiece_size |-> mz,
     signature_start |-> ss, signature_size |-> sz, fill |-> seed]

NoReply == Rep("None", FALSE, 0, 0, 0, 0, 0, 0, 0)

SigSizes == {0, 32, 33, MaxSigLen}

\* What the artist may answer: well-formed replies with several grid and
\* signature sizes, a reply at the very end of the in region, replies whose
\* intervals leave the in region, a pixel buffer shorter than height *
\* width, an error label and a payload that does not decode.
Replies ==
    {Rep("Ok", TRUE, 2, 2, 0, 4, 4, 1, 7),
     Rep("Ok", TRUE, 2, 0, 0, 0, 0, 0, 7),
     Rep("Ok", TRUE, 1, 1, REGION_SIZE - 1, 1, REGION_SIZE, 0, 7),
     Rep("Ok", TRUE, 1, 1, REGION_SIZE - 2, 4, 0, 1, 7),
     Rep("Ok", TRUE, 0, 0, REGION_SIZE + 1, 0, 0, 1, 7),
     Rep("Ok", TRUE, 1, 1, 0, 1, REGION_SIZE - 1, 2, 7),
     Rep("Ok", TRUE, 2, 2, 0, 3, 4, 1, 7),
     Rep("Error", TRUE, 1, 1, 0, 1, 1, 1, 0),
     Rep("Ok", FALSE, 1, 1, 0, 1, 1, 1, 7)}
    \cup {Rep("Ok", TRUE, 1, 1, 2, 1, 3, n, 7) : n \in SigSizes}

\* The bytes the artist leaves in the in region before it replies (nothing
\* when fill = 0): fill * offset + 3, from offset 0 on.
ArtistFill(r) ==
    IF r.fill = 0 THEN <<>>
    ELSE [k \in 1..(4 + MaxSigLen) |-> ((k - 1) * r.fill + 3) % 256]

\* ------------------------------------------------------------ output

\* The grid is read column by column.
RECURSIVE GridByColumn(_, _, _, _, _, _)
GridByColumn(px, h, w, row, col, oks) ==
    IF row >= h THEN [out |-> <<>>, panic |-> FALSE]
    ELSE IF col >= w
         THEN LET rest == GridByColumn(px, h, w, row + 1, 0, oks)
              IN  [out |-> <<Text("nl")>> \o rest.out, panic |-> rest.panic]
    ELSE LET i == col * h + row
         IN  IF i >= Len(px) THEN [out |-> <<>>, panic |-> TRUE]
             ELSE LET rest == GridByColumn(px, h, w, row, col + 1, oks)
                  IN  [out |-> <<Putc("pix", px[i + 1], oks[i])>> \o rest.out,
                       panic |-> rest.panic]

\* The grid was read past the end of the pixel data, as zeroes.
RECURSIVE GridUnchecked(_, _, _, _, _, _)
GridUnchecked(px, h, w, row, col, oks) ==
    IF row >= h THEN [out |-> <<>>, panic |-> FALSE]
    ELSE IF col >= w
         THEN LET rest == GridUnchecked(px, h, w, row + 1, 0, oks)
              IN  [out |-> <<Text("nl")>> \o rest.out, panic |-> rest.panic]
    ELSE LET i == row * w + col
             rest == GridUnchecked(px, h, w, row, col + 1, oks)
         IN  [out |-> <<Putc("pix", IF i >= Len(px) THEN 0 ELSE px[i + 1], oks[i])>>
                         \o rest.out,
              panic |-> rest.panic]

\* The grid loop of create: row-major, one serial.write per pixel and a
\* newline per row; pixel_data[i] panics when i is out of range.  oks[i]
\* tells whether the driver took pixel i.
RECURSIVE Grid(_, _, _, _, _, _)
Grid(px, h, w, row, col, oks) ==
    IF row >= h THEN [out |-> <<>>, panic |-> FALSE]
    ELSE IF col >= w
         THEN LET rest == Grid(px, h, w, row + 1, 0, oks)
              IN  [out |-> <<Text("nl")>> \o rest.out, panic |-> rest.panic]
    ELSE LET i == row * w + col
         IN  IF i >= Len(px) THEN [out |-> <<>>, panic |-> TRUE]
             ELSE LET rest == Grid(px, h, w, row, col + 1, oks)
                  IN  [out |-> <<Putc("pix", px[i + 1], oks[i])>> \o rest.out,
                       panic |-> rest.panic]

CHUNK == 32

Min(x, y) == IF x <= y THEN x ELSE y

\* chunks_exact: the remainder shorter than n is left out.
RECURSIVE ChunksExact(_, _)
ChunksExact(s, n) ==
    IF Len(s) < n THEN <<>>
    ELSE <<SubSeq(s, 1, n)>> \o ChunksExact(SubSeq(s, n + 1, Len(s)), n)

\* slice::chunks(n): consecutive slices of n elements, the last one shorter
\* when the length is no multiple of n.
RECURSIVE Chunks(_, _)
Chunks(s, n) ==
    IF s = <<>> THEN <<>>
    ELSE <<SubSeq(s, 1, Min(n, Len(s)))>> \o Chunks(SubSeq(s, n + 1, Len(s)), n)

\* One lowercase hex digit, as its ASCII code.
HexChar(n) == IF n < 10 THEN 48 + n ELSE 87 + n

\* hex::encode: two digits per byte, high nibble first.
RECURSIVE HexEncode(_)
HexEncode(bytes) ==
    IF bytes = <<>> THEN <<>>
    ELSE <<HexChar(Head(bytes) \div 16), HexChar(Head(bytes) % 16)>>
         \o HexEncode(Tail(bytes))

SignatureLines(signature) ==
    LET chunks == Chunks(signature, CHUNK)
    IN  [k \in 1..Len(chunks) |-> Ev("hex", 0, 0, HexEncode(chunks[k]))]

\* ------------------------------------------------------------ state

VARIABLES
    rx,         \* bytes the serial driver has received and not handed over
    channel,    \* the argument of the last call of notified
    pc,         \* "idle": waiting for a notification; "run": in the read
                \* loop of notified; "call": blocked in TALENT.pp_call;
                \* "replied": the reply is in the message registers;
                \* "halt": panicked
    cur,        \* the byte b the read loop is working on
    buffer,     \* ThisHandler.buffer
    region_out, \* ThisHandler.region_out
    region_in,  \* ThisHandler.region_in
    draft,      \* the draft of the create that is running or panicked
    reply,      \* the artist's reply in the message registers
    inflight,   \* calls to the artist that have not returned
    trace,      \* what the assistant did since it last read a byte
    seen        \* the input read so far: whether a line terminator was
                \* read, and before that the number of bytes 0x20..0x7E
                \* read (counted up to MAX_SUBJECT_LEN + 1)

vars == <<rx, channel, pc, cur, buffer, region_out, region_in, draft, reply,
          inflight, trace, seen>>

\* init(): the regions are mapped, the prompt is printed, the buffer is empty.
Init ==
    /\ rx = <<>>
    /\ channel = NoChannel
    /\ pc = "idle"
    /\ cur = NoByte
    /\ buffer = <<>>
    /\ region_out = <<>>
    /\ region_in = <<>>
    /\ draft = NoDraft
    /\ reply = NoReply
    /\ inflight = 0
    /\ trace = <<Text("prompt")>>
    /\ seen = [terminated |-> FALSE, printable |-> 0]

\* ------------------------------------------------------------ the handler

\* The limit check one byte early, and one byte late.
AtLimitEarly(buf) == Len(buf) >= MAX_SUBJECT_LEN - 1

AtLimitLate(buf) == Len(buf) > MAX_SUBJECT_LEN

\* self.buffer.len() == MAX_SUBJECT_LEN
AtLimit(buf) == Len(buf) = MAX_SUBJECT_LEN

\* Every channel is taken for the serial driver's.
IsSerialAny(ch) == TRUE

\* channel == self.serial.channel; init builds the serial client on
\* UART_DRIVER.
IsSerial(ch) == ch = UART_DRIVER

\* No buffer counts as empty.
IsEmptyNever(buf) == FALSE

\* self.buffer.is_empty()
IsEmpty(buf) == buf = <<>>

\* Any label is taken for success.
StatusAny(msg) == TRUE

\* assert_eq!(msg_info.label().try_into(), Ok(StatusMessageLabel::Ok))
StatusOk(msg) == msg.label = "Ok"

\* A handler that is entered again while its call is outstanding.
CanReadDuringCall == pc \in {"run", "call"}

\* The handler thread is in the read loop: it reads the next byte only
\* when the previous turn, a blocking call included, has returned.
CanRead == pc = "run"

\* A panic (a failed assertion, unwrap or bounds check): the protection
\* domain stops with what it did so far.
Halt(tr) ==
    /\ pc' = "halt"
    /\ trace' = tr

\* notified, the printable branch after the limit check: the byte is
\* written to the serial line, the result of write is dropped, and the
\* byte is pushed.
Accept(tr, buf, b) ==
    \E ok \in WriteResults :
        /\ trace' = tr \o <<Putc("echo", b, ok)>>
        /\ buffer' = Append(buf, b)

\* The turn goes on without the prompt.
AfterTryCreateNoPrompt(tr, b) ==
    /\ pc' = "run"
    /\ IF IsTerminator(b)
       THEN /\ trace' = tr
            /\ buffer' = <<>>
       ELSE Accept(tr, <<>>, b)

\* The byte that met the full buffer is dropped after the cycle.
AfterTryCreateDropByte(tr, b) ==
    /\ pc' = "run"
    /\ trace' = tr \o <<Text("prompt")>>
    /\ buffer' = <<>>

\* What notified does once try_create has returned with the buffer cleared:
\* the prompt, and on the char-limit path the echo and push of b.
AfterTryCreate(tr, b) ==
    /\ pc' = "run"
    /\ IF IsTerminator(b)
       THEN /\ trace' = tr \o <<Text("prompt")>>
            /\ buffer' = <<>>
       ELSE Accept(tr \o <<Text("prompt")>>, <<>>, b)

\* The request is sent before the pixel data is copied.
CreateCallFirst(tr, subject) ==
    \E d \in DraftNew(subject) :
        LET draft_start == 0
            draft_size == Len(d.pixel_data)
            draft_end == draft_start + draft_size
        IN  /\ draft' = d
            /\ buffer' = <<>>
            /\ IF InBounds(draft_start, draft_end)
               THEN /\ region_out' = CopyFromSlice(region_out, draft_start, d.pixel_data)
                    /\ trace' = tr \o <<Ev("call", draft_start, draft_size,
                                           <<d.height, d.width>>),
                                        Ev("write_out", draft_start, draft_end,
                                           d.pixel_data)>>
                    /\ pc' = "call"
                    /\ inflight' = inflight + 1
               ELSE /\ Halt(tr)
                    /\ UNCHANGED <<region_out, inflight>>

\* The subject stays in the buffer while the cycle runs.
CreateKeepsBuffer(tr, subject) ==
    \E d \in DraftNew(subject) :
        LET draft_start == 0
            draft_size == Len(d.pixel_data)
            draft_end == draft_start + draft_size
        IN  /\ draft' = d
            /\ buffer' = subject
            /\ IF InBounds(draft_start, draft_end)
               THEN /\ region_out' = CopyFromSlice(region_out, draft_start, d.pixel_data)
                    /\ trace' = tr \o <<Ev("write_out", draft_start, draft_end, d.pixel_data),
                                        Ev("call", draft_start, draft_size,
                                           <<d.height, d.width>>)>>
                    /\ pc' = "call"
                    /\ inflight' = inflight + 1
               ELSE /\ Halt(tr)
                    /\ UNCHANGED <<region_out, inflight>>

\* create up to the call: the draft, the copy into the out region and the
\* request.  The buffer was swapped out by try_create.
Create(tr, subject) ==
    \E d \in DraftNew(subject) :
        LET draft_start == 0
            draft_size == Len(d.pixel_data)
            draft_end == draft_start + draft_size
        IN  /\ draft' = d
            /\ buffer' = <<>>
            /\ IF InBounds(draft_start, draft_end)
               THEN /\ region_out' = CopyFromSlice(region_out, draft_start, d.pixel_data)
                    /\ trace' = tr \o <<Ev("write_out", draft_start, draft_end, d.pixel_data),
                                        Ev("call", draft_start, draft_size,
                                           <<d.height, d.width>>)>>
                    /\ pc' = "call"
                    /\ inflight' = inflight + 1
               ELSE /\ Halt(tr)
                    /\ UNCHANGED <<region_out, inflight>>

\* try_create: the buffer is taken, validated as UTF-8 and handed to
\* create; invalid text is reported and the cycle ends.
TryCreate(tr, b) ==
    LET subject == buffer
    IN  IF Utf8Valid(subject)
        THEN Create(tr, subject)
        ELSE /\ AfterTryCreate(tr \o <<Text("utf8err")>>, b)
             /\ UNCHANGED <<region_out, draft, inflight>>

SeenAfter(b) ==
    IF seen.terminated \/ b = 10 \/ b = 13
    THEN [terminated |-> TRUE, printable |-> 0]
    ELSE IF b >= 32 /\ b <= 126 /\ seen.printable <= MAX_SUBJECT_LEN
         THEN [seen EXCEPT !.printable = @ + 1]
    ELSE seen

\* A byte reaches the serial driver.
Arrive(b) ==
    /\ Len(rx) < MaxQueue
    /\ rx' = Append(rx, b)
    /\ UNCHANGED <<channel, pc, cur, buffer, region_out, region_in, draft, reply,
                   inflight, trace, seen>>

\* notified(channel): the read loop is entered for the driver's channel,
\* any other channel is unreachable!().
Notified(ch) ==
    /\ pc = "idle"
    /\ channel' = ch
    /\ pc' = IF IsSerial(ch) THEN "run" ELSE "halt"
    /\ UNCHANGED <<rx, cur, buffer, region_out, region_in, draft, reply,
                   inflight, trace, seen>>

\* One turn of the read loop with serial.read() = Ok(b), up to the next
\* read, the call to the artist or a panic.
ReadByte ==
    /\ CanRead
    /\ rx # <<>>
    /\ LET b == Head(rx)
       IN  /\ rx' = Tail(rx)
           /\ cur' = b
           /\ channel' = channel
           /\ reply' = NoReply
           /\ region_in' = region_in
           /\ seen' = SeenAfter(b)
           /\ IF IsTerminator(b)
              THEN IF ~IsEmpty(buffer)
                   THEN TryCreate(<<Text("nl")>>, b)
                   ELSE /\ trace' = <<Text("nl"), Text("prompt")>>
                        /\ UNCHANGED <<pc, buffer, region_out, draft, inflight>>
              ELSE IF IsPrintable(b)
                   THEN IF AtLimit(buffer)
                        THEN TryCreate(<<Text("limit")>>, b)
                        ELSE /\ Accept(<<>>, buffer, b)
                             /\ UNCHANGED <<pc, region_out, draft, inflight>>
                   ELSE /\ trace' = <<>>
                        /\ UNCHANGED <<pc, buffer, region_out, draft, inflight>>

\* serial.read() reports would-block: the loop ends and notified returns.
ReadWouldBlock ==
    /\ pc = "run"
    /\ rx = <<>>
    /\ pc' = "idle"
    /\ UNCHANGED <<rx, channel, cur, buffer, region_out, region_in, draft, reply,
                   inflight, trace, seen>>

\* The artist serves the call: it fills the in region and replies.
ArtistReply(r) ==
    /\ pc = "call"
    /\ region_in' = CopyFromSlice(region_in, 0, ArtistFill(r))
    /\ reply' = r
    /\ inflight' = inflight - 1
    /\ pc' = "replied"
    /\ UNCHANGED <<rx, channel, cur, buffer, region_out, draft, trace, seen>>

\* create from the return of pp_call on, then the rest of try_create and
\* of the loop turn.
Resume ==
    /\ pc = "replied"
    /\ LET msg == reply
           m_lo == msg.masterpiece_start
           m_hi == msg.masterpiece_start + msg.masterpiece_size
           s_lo == msg.signature_start
           s_hi == msg.signature_start + msg.signature_size
           pixel_data == CopyToVec(region_in, m_lo, m_hi)
           signature == CopyToVec(region_in, s_lo, s_hi)
           t0 == trace \o <<Text("recv")>>
           t1 == t0 \o <<Ev("read_in", m_lo, m_hi, pixel_data)>>
           t2 == t1 \o <<Ev("read_in", s_lo, s_hi, signature), Text("nl")>>
       IN  IF ~StatusOk(msg)
           THEN Halt(trace) /\ UNCHANGED <<buffer, draft>>
           ELSE IF ~msg.decodes \/ ~InBounds(m_lo, m_hi)
           THEN Halt(t0) /\ UNCHANGED <<buffer, draft>>
           ELSE IF ~InBounds(s_lo, s_hi)
           THEN Halt(t1) /\ UNCHANGED <<buffer, draft>>
           ELSE \E oks \in [0..(msg.height * msg.width - 1) -> WriteResults] :
                   LET g == Grid(pixel_data, msg.height, msg.width, 0, 0, oks)
                   IN  IF g.panic
                       THEN Halt(t2 \o g.out) /\ UNCHANGED <<buffer, draft>>
                       ELSE /\ AfterTryCreate(
                                 t2 \o g.out \o <<Text("nl"), Text("sighdr")>>
                                    \o SignatureLines(signature) \o <<Text("nl")>>,
                                 cur)
                            /\ draft' = NoDraft
    /\ UNCHANGED <<rx, channel, cur, region_out, region_in, reply, inflight, seen>>

Next ==
    \/ \E b \in InputBytes : Arrive(b)
    \/ \E ch \in Channels : Notified(ch)
    \/ ReadByte
    \/ ReadWouldBlock
    \/ \E r \in Replies : ArtistReply(r)
    \/ Resume

Spec == Init /\ [][Next]_vars

\* ------------------------------------------- one turn, for every byte value

\* The values of a u8.
AllBytes == 0..255

\* Buffer lengths at which the byte is read: empty, one byte, full.
StartLens == {0, 1, MAX_SUBJECT_LEN}

\* The handler is in its read loop with one byte waiting; the buffer holds
\* n bytes '~' read so far (after init when n = 0).
AllBytesInit ==
    \E b \in AllBytes, n \in StartLens :
        /\ rx = <<b>>
        /\ channel = UART_DRIVER
        /\ pc = "run"
        /\ cur = IF n = 0 THEN NoByte ELSE 126
        /\ buffer = [i \in 1..n |-> 126]
        /\ region_out = <<>>
        /\ region_in = <<>>
        /\ draft = NoDraft
        /\ reply = NoReply
        /\ inflight = 0
        /\ trace = IF n = 0 THEN <<Text("prompt")>> ELSE <<Putc("echo", 126, TRUE)>>
        /\ seen = [terminated |-> FALSE, printable |-> n]

AllBytesNext == ReadByte

AllBytesSpec == AllBytesInit /\ [][AllBytesNext]_vars

\* ------------------------------------------------------------ properties

Idx(tr, e) == {i \in 1..Len(tr) : tr[i].ev = e}

Count(tr, e) == Cardinality(Idx(tr, e))

Has(tr, e) == Idx(tr, e) # {}

FirstIs(tr, e) == tr # <<>> /\ tr[1].ev = e

\* The step reads a byte from the serial driver.
ReadStep == Len(rx') < Len(rx)

\* C1 as stated: while the input holds no line terminator, no request is
\* issued to the artist, and the buffer never shrinks and never exceeds
\* MAX_SUBJECT_LEN.
C1_NoRequestWithoutTerminator ==
    [][~seen'.terminated =>
          /\ ~Has(trace', "call")
          /\ pc' # "call"
          /\ Len(buffer') >= Len(buffer)
          /\ Len(buffer') <= MAX_SUBJECT_LEN]_vars

\* C1, amended: while the input holds no line terminator and at most
\* MAX_SUBJECT_LEN printable bytes, no request is issued to the artist, and
\* the buffer never shrinks and never exceeds MAX_SUBJECT_LEN.
C1_NoRequestBelowLimit ==
    [][(~seen'.terminated /\ seen'.printable <= MAX_SUBJECT_LEN) =>
          /\ ~Has(trace', "call")
          /\ pc' \notin {"call", "replied"}
          /\ inflight' = 0
          /\ region_out' = region_out
          /\ Len(buffer') >= Len(buffer)
          /\ Len(buffer') <= MAX_SUBJECT_LEN
          /\ Len(buffer') = seen'.printable]_vars

\* MAX_SUBJECT_LEN printable bytes and an ignored byte were read, no
\* terminator, and the buffer is full.
C1_Witness ==
    /\ ~seen.terminated
    /\ seen.printable = MAX_SUBJECT_LEN
    /\ Len(buffer) = MAX_SUBJECT_LEN
    /\ cur = 127
    /\ pc = "run"
    /\ inflight = 0

\* C2: a printable byte that finds MAX_SUBJECT_LEN bytes in the buffer
\* starts a cycle with the "(char limit reached)" notice, then the request
\* for the buffered subject, and while the artist works the buffer is
\* empty and neither a prompt nor an echo has been written; when the cycle
\* returns, the prompt is written once and after it the byte is echoed and
\* pushed, so that the buffer holds exactly that byte.
C2_OverflowOrder ==
    [][/\ (ReadStep /\ Len(buffer) = MAX_SUBJECT_LEN /\ cur' >= 32 /\ cur' <= 126)
            => FirstIs(trace', "limit")
       /\ (ReadStep /\ FirstIs(trace', "limit")) =>
            /\ Len(buffer) = MAX_SUBJECT_LEN
            /\ cur' >= 32 /\ cur' <= 126
            /\ buffer' = <<>>
            /\ pc' \in {"call", "halt"}
            /\ ~Has(trace', "prompt") /\ ~Has(trace', "echo")
            /\ pc' = "call" =>
                  /\ Len(trace') = 3
                  /\ trace'[2].ev = "write_out"
                  /\ trace'[3].ev = "call"
       /\ (FirstIs(trace, "limit") /\ pc = "replied" /\ pc' = "run") =>
            LET n == Len(trace')
            IN  /\ Idx(trace', "limit") = {1}
                /\ Idx(trace', "call") = {3}
                /\ Idx(trace', "prompt") = {n - 1}
                /\ Idx(trace', "echo") = {n}
                /\ trace'[n].a = cur
                /\ SubSeq(trace', 1, Len(trace)) = trace
                /\ buffer = <<>>
                /\ buffer' = <<cur>>]_vars

\* The cycle of a seventeenth byte has returned: the notice, the request,
\* the signature, the prompt and last the echo, and the byte is buffered.
C2_Witness ==
    /\ pc = "run"
    /\ FirstIs(trace, "limit")
    /\ Has(trace, "sighdr")
    /\ trace[Len(trace)].ev = "echo"
    /\ trace[Len(trace) - 1].ev = "prompt"
    /\ buffer = <<126>>

\* C3 as stated: a lone byte 0x80 and then a line terminator make the
\* assistant print the encoding error and the prompt, without a call.
C3_EncodingErrorPrinted ==
    [][(ReadStep /\ cur = 128 /\ buffer = <<>> /\ IsTerminator(cur')) =>
          /\ Has(trace', "utf8err")
          /\ Has(trace', "prompt")
          /\ ~Has(trace', "call")]_vars

\* C3, amended: a byte from 0x80 on is dropped when it is read (nothing is
\* buffered or written), and the line terminator that follows it on an
\* empty buffer is echoed as a newline and answered with the prompt alone:
\* no encoding error is printed and no call is made.
C3_InvalidByteDropped ==
    [][/\ (ReadStep /\ cur' >= 128) =>
            /\ buffer' = buffer
            /\ trace' = <<>>
            /\ pc' = "run"
            /\ region_out' = region_out
       /\ (ReadStep /\ cur >= 128 /\ buffer = <<>> /\ IsTerminator(cur')) =>
            /\ trace' = <<Text("nl"), Text("prompt")>>
            /\ buffer' = <<>>
            /\ pc' = "run"
            /\ inflight' = 0]_vars

\* 0x80 was read and dropped on an empty buffer, and a newline is next.
C3_Witness ==
    /\ pc = "run"
    /\ cur = 128
    /\ buffer = <<>>
    /\ trace = <<>>
    /\ rx # <<>>
    /\ Head(rx) = 10

\* Events of a request-response cycle.
CycleEvents ==
    {"write_out", "call", "recv", "read_in", "pix", "sighdr", "hex", "utf8err"}

\* C4: before any byte is read the prompt has been printed exactly once;
\* when a turn that began with a line terminator or with the char-limit
\* notice is over (the cycle rendered, aborted, or the line was empty),
\* exactly one prompt has been printed, after everything the cycle did and
\* before the echo of the next accepted byte; a turn that began otherwise
\* prints no prompt.
C4_OnePrompt ==
    /\ cur = NoByte => trace = <<Text("prompt")>>
    /\ (cur # NoByte /\ pc \in {"run", "idle"}) =>
          IF FirstIs(trace, "nl") \/ FirstIs(trace, "limit")
          THEN /\ Count(trace, "prompt") = 1
               /\ \A p \in Idx(trace, "prompt") :
                     /\ \A i \in 1..Len(trace) :
                           /\ trace[i].ev \in CycleEvents => i < p
                           /\ trace[i].ev = "echo" => i > p
                     /\ p >= Len(trace) - 1
                     /\ p = Len(trace) - 1 => trace[Len(trace)].ev = "echo"
          ELSE ~Has(trace, "prompt")

\* A rendered cycle is over and its one prompt is out.
C4_Witness ==
    /\ pc = "run"
    /\ FirstIs(trace, "nl")
    /\ Has(trace, "sighdr")
    /\ trace[Len(trace)].ev = "prompt"
    /\ Count(trace, "prompt") = 1

ReplyOutOfBounds ==
    \/ reply.masterpiece_start + reply.masterpiece_size > REGION_SIZE
    \/ reply.signature_start + reply.signature_size > REGION_SIZE

\* C5: every copy out of the in region lies inside it, and once create has
\* looked at an Ok reply whose masterpiece or signature interval ends
\* beyond REGION_SIZE the assistant is halted, having read nothing for an
\* interval that leaves the region and written no grid, signature or
\* prompt.
C5_OutOfBoundsReplyHalts ==
    /\ \A i \in Idx(trace, "read_in") :
          /\ trace[i].a <= trace[i].b
          /\ trace[i].b <= REGION_SIZE
          /\ Len(trace[i].data) = trace[i].b - trace[i].a
    /\ (reply.label = "Ok" /\ reply.decodes /\ ReplyOutOfBounds /\ pc # "replied") =>
          /\ pc = "halt"
          /\ Count(trace, "call") = 1
          /\ \A i \in 1..Len(trace) :
                \A c \in Idx(trace, "call") :
                    i > c => trace[i].ev \in {"recv", "read_in"}
          /\ Count(trace, "read_in") <= 1
          /\ reply.masterpiece_start + reply.masterpiece_size > REGION_SIZE
                => ~Has(trace, "read_in")

\* Halted on a reply whose signature interval leaves the in region, after
\* the masterpiece was copied.
C5_Witness ==
    /\ pc = "halt"
    /\ reply.label = "Ok"
    /\ reply.signature_start + reply.signature_size > REGION_SIZE
    /\ Count(trace, "read_in") = 1
    /\ trace[Len(trace)].ev = "read_in"

\* C6: once create has looked at a reply whose label is not Ok the
\* assistant is halted with the call as the last thing it did (no decoding,
\* no read of the in region, no output, no prompt, no second call), and a
\* halted assistant never moves again: bytes may still reach the driver,
\* none is read.
C6_ErrorLabelHalts ==
    [][/\ (reply'.label \notin {"Ok", "None"} /\ pc' # "replied") =>
            /\ pc' = "halt"
            /\ Count(trace', "call") = 1
            /\ trace'[Len(trace')].ev = "call"
            /\ trace' = trace
            /\ inflight' = 0
       /\ pc = "halt" =>
            /\ pc' = "halt"
            /\ ~ReadStep
            /\ SubSeq(rx', 1, Len(rx)) = rx
            /\ UNCHANGED <<cur, buffer, region_out, region_in, draft, reply,
                           inflight, trace, seen>>]_vars

\* Halted on an error label, with a byte waiting at the driver.
C6_Witness ==
    /\ pc = "halt"
    /\ reply.label = "Error"
    /\ trace[Len(trace)].ev = "call"
    /\ rx # <<>>

\* C7: the request create sends carries draft_start = 0 and draft_size =
\* the length of the draft's pixel data, within REGION_SIZE, and right
\* before the call exactly that many bytes of the out region, from offset
\* 0, were overwritten with the pixel data; a draft larger than the region
\* halts the assistant before any write or call; a reply that passes the
\* checks is decoded with two copies from the in region, of exactly
\* masterpiece_size bytes from masterpiece_start and signature_size bytes
\* from signature_start.
C7_RequestAndResponseIntervals ==
    [][/\ (pc = "run" /\ pc' = "call") =>
            LET size == Len(draft'.pixel_data)
                n == Len(trace')
            IN  /\ n >= 3
                /\ trace'[n] = Ev("call", 0, size, <<draft'.height, draft'.width>>)
                /\ trace'[n - 1] = Ev("write_out", 0, size, draft'.pixel_data)
                /\ size <= REGION_SIZE
                /\ Count(trace', "call") = 1
                /\ Count(trace', "write_out") = 1
                /\ \A k \in 0..Max(Len(region_out), Len(region_out')) :
                      RegionAt(region_out', k) =
                          IF k < size THEN draft'.pixel_data[k + 1]
                          ELSE RegionAt(region_out, k)
       /\ Len(draft'.pixel_data) > REGION_SIZE =>
            /\ pc' = "halt"
            /\ ~Has(trace', "call")
            /\ ~Has(trace', "write_out")
            /\ region_out' = region_out
            /\ inflight' = 0
       /\ (pc = "replied" /\ pc' # "replied" /\ reply.label = "Ok"
           /\ reply.decodes /\ ~ReplyOutOfBounds) =>
            \E i, j \in 1..Len(trace') :
                /\ Idx(trace', "read_in") = {i, j}
                /\ i < j
                /\ trace'[i].a = reply.masterpiece_start
                /\ trace'[i].b = reply.masterpiece_start + reply.masterpiece_size
                /\ Len(trace'[i].data) = reply.masterpiece_size
                /\ \A k \in 1..reply.masterpiece_size :
                      trace'[i].data[k] =
                          RegionAt(region_in, reply.masterpiece_start + k - 1)
                /\ trace'[j].a = reply.signature_start
                /\ trace'[j].b = reply.signature_start + reply.signature_size
                /\ Len(trace'[j].data) = reply.signature_size
                /\ \A k \in 1..reply.signature_size :
                      trace'[j].data[k] =
                          RegionAt(region_in, reply.signature_start + k - 1)]_vars

\* A reply with a 33-byte signature at offset 3 was decoded, after a
\* request for a one-byte draft that followed a two-byte one.
C7_Witness ==
    /\ pc = "run"
    /\ reply.signature_size = 33
    /\ Count(trace, "read_in") = 2
    /\ \E i \in Idx(trace, "call") : trace[i].b = 1
    /\ Len(region_out) = 2

\* C8: a byte is read only in the read loop, and it is the oldest byte the
\* driver holds, while arriving bytes queue up behind; never more than one
\* call to the artist is outstanding; while a call is outstanding the
\* assistant does nothing (no read, echo or push: the driver's queue and
\* the artist's reply alone change); and when the next byte is read, a
\* cycle of the previous turn has run to its end: both copies, the grid,
\* the signature and the prompt.
C8_OneCycleAtATime ==
    [][/\ ReadStep =>
            /\ pc = "run"
            /\ inflight = 0
            /\ cur' = Head(rx)
            /\ rx' = Tail(rx)
            /\ Has(trace, "call") =>
                  /\ Count(trace, "call") = 1
                  /\ Count(trace, "read_in") = 2
                  /\ Count(trace, "sighdr") = 1
                  /\ Count(trace, "prompt") = 1
                  /\ \A i \in 1..Len(trace) :
                        trace[i].ev \in {"sighdr", "hex", "pix", "read_in"} =>
                            /\ \A c \in Idx(trace, "call") : c < i
                            /\ \A p \in Idx(trace, "prompt") : i < p
       /\ (~ReadStep /\ rx' # rx) =>
            /\ Len(rx') = Len(rx) + 1
            /\ SubSeq(rx', 1, Len(rx)) = rx
       /\ inflight' \in {0, 1}
       /\ inflight' = 1 <=> pc' = "call"
       /\ pc = "call" =>
            /\ ~ReadStep
            /\ UNCHANGED <<cur, buffer, trace, region_out, draft, seen>>
            /\ pc' \in {"call", "replied"}]_vars

\* A call is outstanding while two bytes wait at the driver.
C8_Witness ==
    /\ pc = "call"
    /\ inflight = 1
    /\ Len(rx) = 2
    /\ rx[1] # rx[2]

RegionEvents(tr) == SelectSeq(tr, LAMBDA e : e.ev \in {"write_out", "call", "read_in"})

EvNames(tr) == [i \in 1..Len(tr) |-> tr[i].ev]

CycleOrder == <<"write_out", "call", "read_in", "read_in">>

\* C9: what the assistant does with the regions and the artist's channel
\* in one turn is a prefix of: one write to the out region, one call, the
\* copy of the masterpiece and the copy of the signature out of the in
\* region, and all four when the cycle runs to its end; the out region
\* changes only in the step that ends in the call, the in region only
\* while the artist holds the call, and the copies from the in region are
\* made only after the reply.
C9_RegionTurnTaking ==
    [][/\ trace' # trace =>
            LET names == EvNames(RegionEvents(trace'))
            IN  /\ Len(names) <= Len(CycleOrder)
                /\ names = SubSeq(CycleOrder, 1, Len(names))
                /\ (pc' \in {"run", "idle"} /\ names # <<>>) => names = CycleOrder
                /\ pc' \in {"call", "replied"} => names = SubSeq(CycleOrder, 1, 2)
                /\ \A i \in 1..Len(trace') :
                      trace'[i].ev \in CycleEvents \cup {"prompt", "nl", "limit", "echo"}
       /\ region_out' # region_out => (pc = "run" /\ pc' = "call")
       /\ region_in' # region_in => (pc = "call" /\ pc' = "replied")
       /\ Count(trace', "read_in") > Count(trace, "read_in") => pc = "replied"
       /\ pc = "call" => trace' = trace]_vars

\* A cycle ran to its end: the write, the call and both copies, after the
\* artist changed the in region.
C9_Witness ==
    /\ pc = "run"
    /\ EvNames(RegionEvents(trace)) = CycleOrder
    /\ region_in # <<>>
    /\ region_out # <<>>

HexValue(c) == IF c >= 48 /\ c <= 57 THEN c - 48 ELSE c - 87

HexDigits == (48..57) \cup (97..102)

\* C10: the hex lines printed after "Signature:" number ceil(L / 32) for a
\* signature of L bytes; every line but the last has 64 digits, the last
\* has 2 * (L mod 32) digits when L mod 32 # 0 and 64 otherwise; every
\* digit is one of 0-9a-f and the digits, read in order two by two, are the
\* bytes of the signature.
C10_HexLines ==
    Has(trace, "sighdr") =>
        LET reads == SelectSeq(trace, LAMBDA e : e.ev = "read_in")
            signature == reads[2].data
            L == Len(signature)
            lines == SelectSeq(trace, LAMBDA e : e.ev = "hex")
            n == Len(lines)
        IN  /\ L = reply.signature_size
            /\ n = (L + 31) \div 32
            /\ \A i \in Idx(trace, "hex") : \A h \in Idx(trace, "sighdr") : h < i
            /\ \A k \in 1..n :
                  /\ Len(lines[k].data) =
                        IF k < n \/ L % 32 = 0 THEN 64 ELSE 2 * (L % 32)
                  /\ \A d \in 1..Len(lines[k].data) : lines[k].data[d] \in HexDigits
            /\ \A b \in 1..L :
                  LET line == lines[((b - 1) \div 32) + 1].data
                      at == 2 * ((b - 1) % 32) + 1
                  IN  16 * HexValue(line[at]) + HexValue(line[at + 1]) = signature[b]

\* The signature of MaxSigLen bytes was printed on three lines.
C10_Witness ==
    /\ Has(trace, "sighdr")
    /\ reply.signature_size = MaxSigLen
    /\ Count(trace, "hex") = 3
    /\ pc = "run"

\* C11: a line terminator read while the buffer is empty causes no request:
\* the turn writes the newline and the prompt and nothing else, the buffer
\* stays empty, no draft is made, the out region is not written and the
\* handler goes on to the next read.
C11_EmptyLineIsNoRequest ==
    [][(ReadStep /\ cur' \in {10, 13} /\ buffer = <<>>) =>
          /\ trace' = <<Text("nl"), Text("prompt")>>
          /\ buffer' = <<>>
          /\ pc' = "run"
          /\ inflight' = 0
          /\ draft' = draft
          /\ region_out' = region_out
          /\ region_in' = region_in]_vars

\* A carriage return was read with the buffer empty.
C11_Witness ==
    /\ pc = "run"
    /\ cur = 13
    /\ buffer = <<>>
    /\ trace = <<Text("nl"), Text("prompt")>>

\* A line terminator is read while the buffer holds exactly MAX_SUBJECT_LEN
\* bytes: the turn starts with the newline, prints no char-limit notice and
\* issues one request (or stops on a draft that does not fit).
FullLineTerminated ==
    (ReadStep /\ cur' \in {10, 13} /\ Len(buffer) = MAX_SUBJECT_LEN) =>
        /\ buffer' = <<>>
        /\ \/ pc' = "call" /\ inflight' = 1
                            /\ EvNames(trace') = <<"nl", "write_out", "call">>
           \/ pc' = "halt" /\ inflight' = 0 /\ trace' = <<Text("nl")>>

\* The cycle of a terminated line returns: it held one request and no
\* char-limit notice, and the buffer is empty at the prompt.
TerminatedLineDone ==
    (pc = "replied" /\ pc' = "run" /\ FirstIs(trace, "nl")) =>
        /\ Count(trace', "call") = 1
        /\ ~Has(trace', "limit")
        /\ trace'[Len(trace')].ev = "prompt"
        /\ buffer' = <<>>

\* The previous turn was a char-limit cycle that has returned, and the byte
\* read now is a line terminator.
TerminatorAfterOverflow ==
    ReadStep /\ cur' \in {10, 13} /\ FirstIs(trace, "limit")

\* C12 as stated: a full buffer followed by a line terminator is processed
\* exactly once, without the char-limit notice, and a line terminator read
\* right after a char-limit cycle finds the buffer empty and only reissues
\* the prompt.
C12_TerminatorAfterOverflowIsNoOp ==
    [][/\ FullLineTerminated
       /\ TerminatedLineDone
       /\ TerminatorAfterOverflow =>
             /\ buffer = <<>>
             /\ trace' = <<Text("nl"), Text("prompt")>>
             /\ pc' = "run"
             /\ inflight' = 0]_vars

\* C12, amended: a full buffer followed by a line terminator is processed
\* exactly once, without the char-limit notice, and a line terminator read
\* right after a char-limit cycle finds the buffer holding the one byte that
\* met the full buffer and starts a cycle of its own for that byte.
C12_TerminatorAfterOverflowIsALine ==
    [][/\ FullLineTerminated
       /\ TerminatedLineDone
       /\ TerminatorAfterOverflow =>
             /\ Len(buffer) = 1
             /\ buffer[1] = cur
             /\ buffer' = <<>>
             /\ FirstIs(trace', "nl")
             /\ ~Has(trace', "limit")
             /\ \/ pc' = "call" /\ Count(trace', "call") = 1
                \/ pc' = "halt" /\ ~Has(trace', "call")]_vars

\* A char-limit cycle has returned with its prompt, the byte that met the
\* full buffer is the whole buffer, and a line terminator is the next byte.
C12_Witness ==
    /\ pc = "run"
    /\ FirstIs(trace, "limit")
    /\ Has(trace, "prompt")
    /\ buffer = <<cur>>
    /\ rx # <<>>
    /\ Head(rx) = 10

\* At most MAX_SUBJECT_LEN bytes, each of them in 0x20..0x7E.
PrintableText(s) ==
    /\ Len(s) <= MAX_SUBJECT_LEN
    /\ \A i \in 1..Len(s) : s[i] >= 32 /\ s[i] <= 126

\* The turn of the byte read calls try_create, which takes the buffer of
\* the state before as the subject.
TryCreateStep ==
    /\ ReadStep
    /\ \/ FirstIs(trace', "limit")
       \/ FirstIs(trace', "nl") /\ trace' # <<Text("nl"), Text("prompt")>>

\* C13: the buffer never holds more than MAX_SUBJECT_LEN bytes and holds
\* only bytes in 0x20..0x7E, and every subject handed to try_create is 1 to
\* MAX_SUBJECT_LEN such bytes.
C13_BufferAndSubjectWellFormed ==
    [][/\ PrintableText(buffer')
       /\ TryCreateStep => (PrintableText(buffer) /\ Len(buffer) >= 1)]_vars

\* A subject of MAX_SUBJECT_LEN bytes was handed over on the char-limit path
\* and its request is outstanding.
C13_Witness ==
    /\ pc = "call"
    /\ FirstIs(trace, "limit")
    /\ seen.printable = MAX_SUBJECT_LEN + 1
    /\ buffer = <<>>

\* The step appends a byte to the buffer.
PushStep == buffer' # buffer /\ buffer' # <<>>

\* C14: a byte is appended to the buffer only in a turn whose last write is
\* the one echo of that byte, and the driver took it, would-block included;
\* the turn of a line terminator starts with the newline.
C14_NeverBufferedWithoutEcho ==
    [][/\ PushStep =>
             LET last == trace'[Len(trace')]
             IN  /\ last.ev = "echo"
                 /\ last.a = buffer'[Len(buffer')]
                 /\ last.b = 1
                 /\ Count(trace', "echo") = 1
       /\ (ReadStep /\ cur' \in {10, 13}) => FirstIs(trace', "nl")]_vars

\* C15: in a cycle that printed the signature header, the writes after the
\* two copies out of the in region are: a newline, then for each row r of
\* reply.height rows the reply.width bytes pixel_data[r * width + c] in
\* the order of c and a newline, then a newline, the header, the hex lines,
\* a newline and the prompt; nothing else is written in between.
C15_GridThenSignatureThenPrompt ==
    Has(trace, "sighdr") =>
        LET reads == Idx(trace, "read_in")
            g0 == CHOOSE i \in reads : \A j \in reads : j <= i
            px == trace[g0 - 1].data
            h == reply.height
            w == reply.width
            e0 == g0 + 1 + h * (w + 1)
            n == Count(trace, "hex")
        IN  /\ Len(px) = reply.masterpiece_size
            /\ trace[g0 - 1].ev = "read_in"
            /\ trace[g0 + 1].ev = "nl"
            /\ Count(trace, "pix") = h * w
            /\ \A r \in 0..(h - 1) :
                  /\ \A c \in 0..(w - 1) :
                        LET e == trace[g0 + 1 + r * (w + 1) + c + 1]
                        IN  e.ev = "pix" /\ e.a = px[r * w + c + 1]
                  /\ trace[g0 + 1 + r * (w + 1) + w + 1].ev = "nl"
            /\ trace[e0 + 1].ev = "nl"
            /\ trace[e0 + 2].ev = "sighdr"
            /\ \A k \in 1..n : trace[e0 + 2 + k].ev = "hex"
            /\ trace[e0 + 3 + n].ev = "nl"
            /\ trace[e0 + 4 + n].ev = "prompt"
            /\ Count(trace, "prompt") = 1
            /\ Count(trace, "sighdr") = 1
            /\ Len(trace) <= e0 + 5 + n

\* A grid of two rows of two pixels was printed, then the signature and the
\* prompt.
C15_Witness ==
    /\ pc = "run"
    /\ Has(trace, "sighdr")
    /\ reply.height = 2
    /\ reply.width = 2
    /\ Count(trace, "pix") = 4
    /\ Count(trace, "hex") = 1
    /\ trace[Len(trace)].ev = "prompt"

\* C16: a byte that is no line terminator and not in 0x20..0x7E (a control
\* character, DEL, any byte from 0x80 on) is dropped: the turn writes
\* nothing to the serial line, the buffer, both regions and the draft stay
\* as they are, no request is issued and the handler goes on to the next
\* read.
C16_OtherBytesIgnored ==
    [][(ReadStep /\ cur' \notin {10, 13} /\ (cur' < 32 \/ cur' > 126)) =>
          /\ buffer' = buffer
          /\ trace' = <<>>
          /\ region_out' = region_out
          /\ region_in' = region_in
          /\ draft' = draft
          /\ inflight' = inflight
          /\ pc' = "run"]_vars

\* The byte 0x80 was read at a full buffer and left no trace.
C16_Witness ==
    /\ cur = 128
    /\ rx = <<>>
    /\ trace = <<>>
    /\ Len(buffer) = MAX_SUBJECT_LEN
    /\ pc = "run"

\* try_create returns to notified: create came back from the artist and
\* printed its output, or the subject was reported as invalid text.
TryCreateReturns ==
    \/ pc = "replied" /\ pc' = "run"
    \/ ReadStep /\ Has(trace', "utf8err")

\* C17: the buffer is empty from the moment try_create takes the subject,
\* while the request is outstanding, and when try_create has returned; the
\* turn that returns ends with the buffer empty after a line terminator and
\* holding only the byte just read on the char-limit path, never a byte of
\* the finished subject.
C17_BufferEmptyAfterTryCreate ==
    [][/\ pc' \in {"call", "replied"} => buffer' = <<>>
       /\ TryCreateReturns =>
             /\ buffer = <<>>
             /\ buffer' = IF cur' \in {10, 13} THEN <<>> ELSE <<cur'>>
             /\ cur' = cur]_vars

\* The cycle of a line ended by a carriage return has returned and the
\* buffer is empty at the prompt.
C17_Witness ==
    /\ pc = "run"
    /\ cur = 13
    /\ FirstIs(trace, "nl")
    /\ Has(trace, "recv")
    /\ trace[Len(trace)].ev = "prompt"
    /\ buffer = <<>>

\* C18: once notified has been called with a channel other than the serial
\* driver's the handler is halted: in the step of that call and in every
\* later step no byte is read from the driver, the buffer, the serial
\* output, the regions and the draft stay as they were and no request is
\* issued.
C18_OtherChannelHalts ==
    [][(channel' # UART_DRIVER /\ channel' # NoChannel) =>
          /\ pc' = "halt"
          /\ ~ReadStep
          /\ UNCHANGED <<cur, buffer, region_out, region_in, draft, reply,
                         inflight, trace, seen>>]_vars

\* notified was called on the artist's channel while a byte was waiting and
\* the buffer held a byte: the handler is halted and both are still there.
C18_Witness ==
    /\ channel = TALENT
    /\ pc = "halt"
    /\ rx # <<>>
    /\ buffer # <<>>
    /\ inflight = 0

\* The buffer is always valid UTF-8, the encoding error is never printed,
\* and a cycle that returns has issued one request.
EncodingNeverFails ==
    /\ Utf8Valid(buffer')
    /\ ~Has(trace', "utf8err")
    /\ (pc = "replied" /\ pc' = "run") => Count(trace', "call") = 1

ShortGridAccepted ==
    /\ pc \notin {"call", "replied"}
    /\ reply.label = "Ok"
    /\ reply.decodes
    /\ ~ReplyOutOfBounds
    /\ reply.height * reply.width > reply.masterpiece_size

\* C20: the k-th pixel written in a turn is the k-th byte of the copied
\* pixel data, so no index at or beyond its length is ever read; after a
\* reply that passed all checks with height * width > masterpiece_size the
\* handler is halted inside the grid, having written the masterpiece_size
\* pixels that exist and no signature header, hex line or prompt.
C20_GridIndexInRange ==
    /\ Has(trace, "pix") =>
          LET px == trace[CHOOSE i \in Idx(trace, "read_in") :
                            \A j \in Idx(trace, "read_in") : i <= j].data
              pixs == SelectSeq(trace, LAMBDA e : e.ev = "pix")
          IN  /\ Len(px) = reply.masterpiece_size
              /\ Len(pixs) <= Len(px)
              /\ Len(pixs) <= reply.height * reply.width
              /\ \A k \in 1..Len(pixs) : pixs[k].a = px[k]
    /\ ShortGridAccepted =>
          /\ pc = "halt"
          /\ Count(trace, "read_in") = 2
          /\ Count(trace, "pix") = reply.masterpiece_size
          /\ trace[Len(trace)].ev \in {"pix", "nl"}
          /\ ~Has(trace, "sighdr")
          /\ ~Has(trace, "hex")
          /\ ~Has(trace, "prompt")

\* A grid of two rows of two pixels came with three pixels: the handler
\* halted after the first pixel of the second row.
C20_Witness ==
    /\ pc = "halt"
    /\ reply.height = 2
    /\ reply.width = 2
    /\ reply.masterpiece_size = 3
    /\ Count(trace, "pix") = 3
    /\ Count(trace, "nl") = 3
    /\ trace[Len(trace)].ev = "pix"

====
